---- MODULE Spec2Model ----
(***************************************************************************)
(* A model of rust-multibase: the base registry (src/src/lib.rs), the      *)
(* radix converter (src/src/base.rs) and the public encode / decode entry  *)
(* points (src/src/lib.rs).  Bytes are the integers 0..255, byte buffers   *)
(* and alphabets are sequences of bytes, u16 arithmetic is taken modulo    *)
(* 2^16.                                                                   *)
(***************************************************************************)
EXTENDS Integers, Sequences, FiniteSets, TLC

\* ------------------------------------------------------------------ bounds

\* Longest arbitrary byte buffer handed to an encoder.
MaxLen == 2
\* Longest run of 0x00 bytes put in front of such a buffer.
MaxZeros == 2
\* Longest payload (symbols after the code byte) handed to the public decode.
MaxText == 3
\* Longest text handed to the converter's decode directly.
MaxConvText == 2

\* ------------------------------------------------------------ result values

\* Result<T, Error>, plus the two ways a call can fail to return a value.
Ok(base, val) == [kind |-> "Ok", err |-> "", base |-> base, val |-> val]
Err(e) == [kind |-> "Err", err |-> e, base |-> "", val |-> <<>>]
Panic == [kind |-> "Panic", err |-> "", base |-> "", val |-> <<>>]
Diverge == [kind |-> "Diverge", err |-> "", base |-> "", val |-> <<>>]
NoResult == [kind |-> "None", err |-> "", base |-> "", val |-> <<>>]

\* Wrapping casts of the fixed-width integer types.
u16(x) == x % 65536
u8(x) == x % 256

\* ------------------------------------------------------------ base registry

Base ==
    { "Base1", "Base2", "Base8", "Base10", "Base16", "Base16Upper",
      "Base32hex", "Base32hexUpper", "Base32hexpad", "Base32hexpadUpper",
      "Base32", "Base32Upper", "Base32pad", "Base32padUpper", "Base32z",
      "Base58flickr", "Base58btc", "Base64", "Base64pad", "Base64url",
      "Base64urlpad" }

\* Base::code
code(base) ==
    CASE base = "Base1" -> 49               \* b'1'
      [] base = "Base2" -> 48               \* b'0'
      [] base = "Base8" -> 55               \* b'7'
      [] base = "Base10" -> 57              \* b'9'
      [] base = "Base16" -> 102             \* b'f'
      [] base = "Base16Upper" -> 70         \* b'F'
      [] base = "Base32hex" -> 118          \* b'v'
      [] base = "Base32hexUpper" -> 86      \* b'V'
      [] base = "Base32hexpad" -> 116       \* b't'
      [] base = "Base32hexpadUpper" -> 84   \* b'T'
      [] base = "Base32" -> 98              \* b'b'
      [] base = "Base32Upper" -> 66         \* b'B'
      [] base = "Base32pad" -> 99           \* b'c'
      [] base = "Base32padUpper" -> 67      \* b'C'
      [] base = "Base32z" -> 104            \* b'h'
      [] base = "Base58flickr" -> 90        \* b'Z'
      [] base = "Base58btc" -> 122          \* b'z'
      [] base = "Base64" -> 109             \* b'm'
      [] base = "Base64pad" -> 77           \* b'M'
      [] base = "Base64url" -> 117          \* b'u'
      [] base = "Base64urlpad" -> 85        \* b'U'

\* The match expression of Base::alphabet.
alphabet_match(base) ==
    CASE base = "Base1" -> Ok("", <<  \* b"1"
        49 >>)
      [] base = "Base2" -> Ok("", <<  \* b"01"
        48, 49 >>)
      [] base = "Base8" -> Ok("", <<  \* b"01234567"
        48, 49, 50, 51, 52, 53, 54, 55 >>)
      [] base = "Base10" -> Ok("", <<  \* b"0123456789"
        48, 49, 50, 51, 52, 53, 54, 55, 56, 57 >>)
      [] base = "Base16" -> Ok("", <<  \* b"0123456789abcdef"
        48, 49, 50, 51, 52, 53, 54, 55, 56, 57, 97, 98, 99, 100, 101,
        102 >>)
      [] base = "Base16Upper" -> Ok("", <<  \* b"0123456789ABCDEF"
        48, 49, 50, 51, 52, 53, 54, 55, 56, 57, 65, 66, 67, 68, 69, 70 >>)
      [] base = "Base32hex" -> Ok("", <<  \* b"0123456789abcdefghijklmnopqrstuv"
        48, 49, 50, 51, 52, 53, 54, 55, 56, 57, 97, 98, 99, 100, 101,
        102, 103, 104, 105, 106, 107, 108, 109, 110, 111, 112, 113,
        114, 115, 116, 117, 118 >>)
      [] base = "Base32hexUpper" -> Ok("", <<  \* b"0123456789ABCDEFGHIJKLMNOPQRSTUV"
        48, 49, 50, 51, 52, 53, 54, 55, 56, 57, 65, 66, 67, 68, 69,
        70, 71, 72, 73, 74, 75, 76, 77, 78, 79, 80, 81, 82, 83, 84,
        85, 86 >>)
      [] base = "Base32hexpad" -> Err("UnsupportedBase")
      [] base = "Base32hexpadUpper" -> Err("UnsupportedBase")
      [] base = "Base32" -> Ok("", <<  \* b"abcdefghijklmnopqrstuvwxyz234567"
        97, 98, 99, 100, 101, 102, 103, 104, 105, 106, 107, 108, 109,
        110, 111, 112, 113, 114, 115, 116, 117, 118, 119, 120, 121,
        122, 50, 51, 52, 53, 54, 55 >>)
      [] base = "Base32Upper" -> Ok("", <<  \* b"ABCDEFGHIJKLMNOPQRSTUVWXYZ234567"
        65, 66, 67, 68, 69, 70, 71, 72, 73, 74, 75, 76, 77, 78, 79,
        80, 81, 82, 83, 84, 85, 86, 87, 88, 89, 90, 50, 51, 52, 53,
        54, 55 >>)
      [] base = "Base32pad" -> Err("UnsupportedBase")
      [] base = "Base32padUpper" -> Err("UnsupportedBase")
      [] base = "Base32z" -> Ok("", <<  \* b"ybndrfg8ejkmcpqxot1uwisza345h769"
        121, 98, 110, 100, 114, 102, 103, 56, 101, 106, 107, 109, 99,
        112, 113, 120, 111, 116, 49, 117, 119, 105, 115, 122, 97, 51,
        52, 53, 104, 55, 54, 57 >>)
      [] base = "Base58flickr" -> Ok("", <<
        \* b"123456789abcdefghijkmnopqrstuvwxyzABCDEFGHJKLMNPQRSTUVWXYZ"
        49, 50, 51, 52, 53, 54, 55, 56, 57, 97, 98, 99, 100, 101, 102,
        103, 104, 105, 106, 107, 109, 110, 111, 112, 113, 114, 115,
        116, 117, 118, 119, 120, 121, 122, 65, 66, 67, 68, 69, 70, 71,
        72, 74, 75, 76, 77, 78, 80, 81, 82, 83, 84, 85, 86, 87, 88,
        89, 90 >>)
      [] base = "Base58btc" -> Ok("", <<
        \* b"123456789ABCDEFGHJKLMNPQRSTUVWXYZabcdefghijkmnopqrstuvwxyz"
        49, 50, 51, 52, 53, 54, 55, 56, 57, 65, 66, 67, 68, 69, 70,
        71, 72, 74, 75, 76, 77, 78, 80, 81, 82, 83, 84, 85, 86, 87,
        88, 89, 90, 97, 98, 99, 100, 101, 102, 103, 104, 105, 106,
        107, 109, 110, 111, 112, 113, 114, 115, 116, 117, 118, 119,
        120, 121, 122 >>)
      [] base = "Base64" -> Ok("", <<
        \* b"ABCDEFGHIJKLMNOPQRSTUVWXYZabcdefghijklmnopqrstuvwxyz0123456789+/"
        65, 66, 67, 68, 69, 70, 71, 72, 73, 74, 75, 76, 77, 78, 79,
        80, 81, 82, 83, 84, 85, 86, 87, 88, 89, 90, 97, 98, 99, 100,
        101, 102, 103, 104, 105, 106, 107, 108, 109, 110, 111, 112,
        113, 114, 115, 116, 117, 118, 119, 120, 121, 122, 48, 49, 50,
        51, 52, 53, 54, 55, 56, 57, 43, 47 >>)
      [] base = "Base64pad" -> Err("UnsupportedBase")
      [] base = "Base64url" -> Ok("", <<
        \* b"ABCDEFGHIJKLMNOPQRSTUVWXYZabcdefghijklmnopqrstuvwxyz0123456789"
        65, 66, 67, 68, 69, 70, 71, 72, 73, 74, 75, 76, 77, 78, 79,
        80, 81, 82, 83, 84, 85, 86, 87, 88, 89, 90, 97, 98, 99, 100,
        101, 102, 103, 104, 105, 106, 107, 108, 109, 110, 111, 112,
        113, 114, 115, 116, 117, 118, 119, 120, 121, 122, 48, 49, 50,
        51, 52, 53, 54, 55, 56, 57 >>)
      [] base = "Base64urlpad" -> Err("UnsupportedBase")

\* A registry in which the padded Base64 variant resolves to the alphabet of
\* its unpadded sibling instead of Err(UnsupportedBase).
alphabet_padded_resolves(base) ==
    IF base = "Base64pad" THEN alphabet_match("Base64") ELSE alphabet_match(base)

\* Base::alphabet
alphabet(base) == alphabet_match(base)

\* The match expression of Base::from_code.
from_code_match(c) ==
    CASE c = 49 -> Ok("Base1", <<>>)               \* b'1'
      [] c = 48 -> Ok("Base2", <<>>)               \* b'0'
      [] c = 55 -> Ok("Base8", <<>>)               \* b'7'
      [] c = 57 -> Ok("Base10", <<>>)              \* b'9'
      [] c = 102 -> Ok("Base16", <<>>)             \* b'f'
      [] c = 70 -> Ok("Base16Upper", <<>>)         \* b'F'
      [] c = 118 -> Ok("Base32hex", <<>>)          \* b'v'
      [] c = 86 -> Ok("Base32hexUpper", <<>>)      \* b'V'
      [] c = 116 -> Ok("Base32hexpad", <<>>)       \* b't'
      [] c = 84 -> Ok("Base32hexpadUpper", <<>>)   \* b'T'
      [] c = 98 -> Ok("Base32", <<>>)              \* b'b'
      [] c = 66 -> Ok("Base32Upper", <<>>)         \* b'B'
      [] c = 99 -> Ok("Base32pad", <<>>)           \* b'c'
      [] c = 67 -> Ok("Base32padUpper", <<>>)      \* b'C'
      [] c = 104 -> Ok("Base32z", <<>>)            \* b'h'
      [] c = 90 -> Ok("Base58flickr", <<>>)        \* b'Z'
      [] c = 122 -> Ok("Base58btc", <<>>)          \* b'z'
      [] c = 109 -> Ok("Base64", <<>>)             \* b'm'
      [] c = 77 -> Ok("Base64pad", <<>>)           \* b'M'
      [] c = 117 -> Ok("Base64url", <<>>)          \* b'u'
      [] c = 85 -> Ok("Base64urlpad", <<>>)        \* b'U'
      [] OTHER -> Err("UnkownBase")

\* A lookup whose catch-all arm answers Base2 instead of Err(UnkownBase).
from_code_default_base2(c) ==
    IF from_code_match(c).kind = "Ok" THEN from_code_match(c) ELSE Ok("Base2", <<>>)

\* Base::from_code
from_code(c) == from_code_match(c)

\* ---------------------------------------------------------------- converter

\* A leader scan that forgets to leave out the last element.
leaders_scan_all(input, x) ==
    LET RECURSIVE scan(_)
        scan(i) == IF i > Len(input) \/ input[i] # x THEN 0 ELSE 1 + scan(i + 1)
    IN scan(1)

\* input.iter().take(input.len() - 1).take_while(|i| *i == x): how many
\* elements the iterator yields.
leaders(input, x) ==
    LET RECURSIVE scan(_)
        scan(i) == IF i > Len(input) - 1 \/ input[i] # x THEN 0 ELSE 1 + scan(i + 1)
    IN scan(1)

\* k zero elements, what `.map(|_| 0)` hands to extend().
zeros(k) == [i \in 1..k |-> 0]

\* vec.iter().rev()
reverse(v) == [i \in 1..Len(v) |-> v[Len(v) + 1 - i]]

\* A shift by one byte too many (<< 16 on a u16 loses the digit).
encode_carry_shift16(carry, digit) == u16(carry + u16(digit * 65536))

\* carry + (digits[j] << 8), in u16.
encode_carry(carry, digit) == u16(carry + u16(digit * 256))

\* The `while j < digits.len()` loop of encode from index j on: the digits
\* and the carry it leaves.
RECURSIVE encode_inner(_, _, _, _)
encode_inner(digits, carry, base, j) ==
    IF j > Len(digits)
    THEN [digits |-> digits, carry |-> carry]
    ELSE LET c == encode_carry(carry, digits[j])
         IN encode_inner([digits EXCEPT ![j] = c % base], c \div base, base, j + 1)

\* The `while carry > 0` loop of encode.  When carry / base = carry with
\* carry > 0 (base = 1) the loop state repeats and the loop never exits: it
\* pushes until the allocator gives up.
RECURSIVE encode_push(_, _, _)
encode_push(digits, carry, base) ==
    IF carry = 0 THEN [diverges |-> FALSE, digits |-> digits]
    ELSE IF carry \div base = carry THEN [diverges |-> TRUE, digits |-> digits]
    ELSE encode_push(Append(digits, carry % base), carry \div base, base)

\* The `for c in input` loop of encode after its first i iterations: the
\* digits so far, or that the push loop of an iteration never exited.
RECURSIVE encode_loop(_, _, _)
encode_loop(input, base, i) ==
    IF i = 0
    THEN [diverges |-> FALSE, digits |-> <<0>>]
    ELSE LET p == encode_loop(input, base, i - 1)
         IN IF p.diverges THEN p
            ELSE LET r == encode_inner(p.digits, input[i], base, 1)
                 IN encode_push(r.digits, r.carry, base)

\* An encoder that emits the digits least significant first (no .rev()).
base_encode_no_rev(alphabet_, input) ==
    IF Len(input) = 0 THEN Ok("", <<>>)
    ELSE IF Len(alphabet_) = 0 THEN Panic
    ELSE LET r == encode_loop(input, Len(alphabet_), Len(input))
             digits == r.digits \o zeros(leaders(input, 0))
         IN IF r.diverges THEN Diverge
            ELSE Ok("", [i \in 1..Len(digits) |-> alphabet_[digits[i] + 1]])

\* base::encode.  `carry % base` panics for an empty alphabet, and
\* alphabet[digit] panics for a digit the alphabet has no symbol for.
base_encode(alphabet_, input) ==
    IF Len(input) = 0 THEN Ok("", <<>>)
    ELSE IF Len(alphabet_) = 0 THEN Panic
    ELSE LET r == encode_loop(input, u16(Len(alphabet_)), Len(input))
             digits == r.digits \o zeros(leaders(input, 0))
         IN IF r.diverges THEN Diverge
            ELSE IF \E i \in 1..Len(digits) : digits[i] + 1 > Len(alphabet_) THEN Panic
            ELSE Ok("", [i \in 1..Len(digits) |-> alphabet_[reverse(digits)[i] + 1]])

\* A lookup table whose default entry is digit 0 instead of the 0xFF sentinel.
alphabet_map_default_zero(alphabet_, c) ==
    LET at == {i \in 1..Len(alphabet_) : alphabet_[i] = c}
    IN IF at = {} THEN 0 ELSE u8((CHOOSE i \in at : \A k \in at : k <= i) - 1)

\* alphabet_map[c] once the table is filled: 255 unless c is in the alphabet,
\* else the (last) position of c, as u8.
alphabet_map(alphabet_, c) ==
    LET at == {i \in 1..Len(alphabet_) : alphabet_[i] = c}
    IN IF at = {} THEN 255 ELSE u8((CHOOSE i \in at : \A k \in at : k <= i) - 1)

\* carry += (*byte as u16) * base, in u16.
decode_carry(carry, byte, base) == u16(carry + u16(byte * base))

\* The `for byte in bytes.iter_mut()` loop of decode from index j on.
RECURSIVE decode_inner(_, _, _, _)
decode_inner(bytes, carry, base, j) ==
    IF j > Len(bytes)
    THEN [bytes |-> bytes, carry |-> carry]
    ELSE LET c == decode_carry(carry, bytes[j], base)
         IN decode_inner([bytes EXCEPT ![j] = u8(c)], c \div 256, base, j + 1)

\* The `while carry > 0` loop of decode.
RECURSIVE decode_push(_, _)
decode_push(bytes, carry) ==
    IF carry = 0 THEN bytes
    ELSE decode_push(Append(bytes, u8(carry)), carry \div 256)

\* The `for c in input` loop of decode after its first i iterations: the
\* bytes so far, or that a symbol met the 0xFF sentinel and the call returned.
RECURSIVE decode_loop(_, _, _)
decode_loop(input, alphabet_, i) ==
    IF i = 0
    THEN [invalid |-> FALSE, bytes |-> <<0>>]
    ELSE LET p == decode_loop(input, alphabet_, i - 1)
         IN IF p.invalid THEN p
            ELSE IF alphabet_map(alphabet_, input[i]) = 255
            THEN [invalid |-> TRUE, bytes |-> p.bytes]
            ELSE LET r == decode_inner(p.bytes, alphabet_map(alphabet_, input[i]),
                                       u16(Len(alphabet_)), 1)
                 IN [invalid |-> FALSE, bytes |-> decode_push(r.bytes, r.carry)]

\* base::decode
base_decode(alphabet_, input) ==
    IF Len(input) = 0 THEN Ok("", <<>>)
    ELSE IF Len(alphabet_) = 0 THEN Err("DecodeError")
    ELSE LET r == decode_loop(input, alphabet_, Len(input))
         IN IF r.invalid THEN Err("DecodeError")
            ELSE Ok("", reverse(r.bytes \o zeros(leaders(input, alphabet_[1]))))

\* ------------------------------------------------------ public entry points

\* impl From<base::DecodeError> for Error
from_decode_error(r) == IF r.kind = "Err" THEN Err("InvalidBaseString") ELSE r

\* <[u8] as Decodable>::decode.  &self[1..] panics on an empty slice, should
\* from_code ever accept the code byte 0 that stands in for a missing one.
decode(text) ==
    LET base == from_code(IF Len(text) = 0 THEN 0 ELSE text[1])
    IN IF base.kind # "Ok" THEN base
       ELSE IF Len(text) = 0 THEN Panic
       ELSE LET alph == alphabet(base.base)
            IN IF alph.kind # "Ok" THEN alph
               ELSE LET decoded == from_decode_error(
                                       base_decode(alph.val, SubSeq(text, 2, Len(text))))
                    IN IF decoded.kind # "Ok" THEN decoded
                       ELSE Ok(base.base, decoded.val)

\* <[u8] as Encodable>::encode
encode(base, data) ==
    LET alph == alphabet(base)
    IN IF alph.kind # "Ok" THEN alph
       ELSE LET encoded == base_encode(alph.val, data)
            IN IF encoded.kind # "Ok" THEN encoded
               ELSE Ok("", <<code(base)>> \o encoded.val)

\* ------------------------------------------------------------------- inputs

\* All sequences over S of length at most k.
SeqsUpTo(S, k) == UNION {[1..m -> S] : m \in 0..k}

\* Byte values the buffers are made of: zero, a small value, the radix of the
\* 58-symbol alphabets, and the largest byte.
ByteVals == {0, 1, 58, 255}

\* Byte buffers: a run of 0x00 bytes in front of an arbitrary short buffer.
Inputs == {zeros(z) \o s : z \in 0..MaxZeros, s \in SeqsUpTo(ByteVals, MaxLen)}

\* b'_', a byte no registered alphabet holds, and b'L', no registered code.
Underscore == 95
CodeL == 76

\* Code bytes texts start with: the 21 registered ones, b'L', 0x00 and 0xFF.
CodeBytes == {code(b) : b \in Base} \cup {CodeL, 0, 255}

\* Payload symbols after code byte c: the first and the last symbol of the
\* alphabet c resolves to (b'1' and b'z' when it resolves to none), and two
\* bytes of no alphabet, b'_' and 0xFF.
PayloadSyms(c) ==
    LET b == from_code_match(c)
        a == IF b.kind = "Ok" THEN alphabet_match(b.base) ELSE b
    IN IF a.kind = "Ok" THEN {a.val[1], a.val[Len(a.val)], Underscore, 255}
       ELSE {49, 122, Underscore, 255}

\* Texts handed to the public decode: the empty text, and a code byte
\* followed by a short payload.
Texts ==
    {<<>>} \cup UNION {{<<c>> \o t : t \in SeqsUpTo(PayloadSyms(c), MaxText)} : c \in CodeBytes}

\* Alphabets handed to the converter directly: none, unary, binary, ternary,
\* two of the registry's, and the two longest alphabets bytes allow.
ConvAlphabets ==
    { <<>>, <<49>>, <<48, 49>>, <<97, 98, 99>>,
      alphabet_match("Base58btc").val, alphabet_match("Base64").val,
      [i \in 1..255 |-> i - 1], [i \in 1..256 |-> i - 1] }

\* Symbols of texts handed to the converter with alphabet a: its first,
\* middle and last symbol, and b'_'.
ConvSyms(a) ==
    IF Len(a) = 0 THEN {49, Underscore}
    ELSE {a[1], a[(Len(a) + 1) \div 2], a[Len(a)], Underscore}

\* The arguments of one call.
Arg(fn, base, alphabet_, input) ==
    [fn |-> fn, base |-> base, alphabet |-> alphabet_, input |-> input]

Args ==
    {Arg("encode", b, <<>>, s) : b \in Base, s \in Inputs}
    \cup {Arg("decode", "", <<>>, t) : t \in Texts}
    \cup {Arg("base_encode", "", a, s) : a \in ConvAlphabets, s \in Inputs}
    \cup UNION {{Arg("base_decode", "", a, t) : t \in SeqsUpTo(ConvSyms(a), MaxConvText)}
                : a \in ConvAlphabets}

\* -------------------------------------------------------------------- state

VARIABLES
    arg,         \* the arguments the caller starts from
    last,        \* the latest call made and what it returned
    prev,        \* the call before it, whose output the latest call was given
    pc,          \* where the call being stepped through is
    s_alphabet,  \* its `alphabet`
    s_input,     \* its `input`
    digits,      \* encode's `digits`
    bytes,       \* decode's `bytes`
    n,           \* the position of `for c in input`
    j,           \* the position of the inner loop
    carry,       \* `carry`
    ret          \* what the call returned

calls == <<arg, last, prev>>
steps == <<pc, s_alphabet, s_input, digits, bytes, n, j, carry, ret>>
vars == <<arg, last, prev, pc, s_alphabet, s_input, digits, bytes, n, j, carry, ret>>

Call(fn, base, alphabet_, input, out) ==
    [fn |-> fn, base |-> base, alphabet |-> alphabet_, input |-> input, out |-> out]

NoCall == Call("none", "", <<>>, <<>>, NoResult)

StepsIdle ==
    /\ pc = "idle"
    /\ s_alphabet = <<>>
    /\ s_input = <<>>
    /\ digits = <<>>
    /\ bytes = <<>>
    /\ n = 0
    /\ j = 0
    /\ carry = 0
    /\ ret = NoResult

Init ==
    /\ arg \in Args
    /\ last = NoCall
    /\ prev = NoCall
    /\ StepsIdle

\* ---------------------------------------------------- calls, one action each

\* What a call of fn can be given: the caller's arguments when no call was
\* made yet, and the output of the latest call when that call was `from`
\* and returned Ok.
Given(fn, from) ==
    (IF last.fn = "none" /\ arg.fn = fn THEN {arg} ELSE {})
    \cup (IF last.fn = from /\ last.out.kind = "Ok"
          THEN {Arg(fn, last.out.base, last.alphabet, last.out.val)}
          ELSE {})

\* multibase::encode(base, data)
Encode ==
    /\ \E a \in Given("encode", "decode") :
          last' = Call("encode", a.base, <<>>, a.input, encode(a.base, a.input))
    /\ prev' = last
    /\ UNCHANGED <<arg, steps>>

\* multibase::decode(text)
Decode ==
    /\ \E a \in Given("decode", "encode") :
          last' = Call("decode", "", <<>>, a.input, decode(a.input))
    /\ prev' = last
    /\ UNCHANGED <<arg, steps>>

\* base::encode(alphabet, input)
BaseEncode ==
    /\ \E a \in Given("base_encode", "base_decode") :
          last' = Call("base_encode", "", a.alphabet, a.input,
                       base_encode(a.alphabet, a.input))
    /\ prev' = last
    /\ UNCHANGED <<arg, steps>>

\* base::decode(alphabet, input)
BaseDecode ==
    /\ \E a \in Given("base_decode", "base_encode") :
          last' = Call("base_decode", "", a.alphabet, a.input,
                       base_decode(a.alphabet, a.input))
    /\ prev' = last
    /\ UNCHANGED <<arg, steps>>

Next == Encode \/ Decode \/ BaseEncode \/ BaseDecode

Spec == Init /\ [][Next]_vars

\* ------------------------------------------- one call, one loop step at a time

\* How many digits the allocator lets a digit vector grow to.  No alphabet of
\* two or more symbols needs more than eight digits per input byte.
MemCap == 8 * (MaxZeros + MaxLen) + 1

InitSteps == Init

\* What the entry point that was called makes of the converter's result r:
\* encode prepends the code byte, decode pairs the bytes with the base and
\* turns a DecodeError into InvalidBaseString.
Return(r) ==
    CASE arg.fn = "encode" ->
           IF r.kind = "Ok" THEN Ok("", <<code(arg.base)>> \o r.val) ELSE r
      [] arg.fn = "decode" ->
           IF r.kind = "Ok" THEN Ok(from_code(arg.input[1]).base, r.val)
           ELSE from_decode_error(r)
      [] OTHER -> r

Done(r) ==
    /\ pc' = "done"
    /\ ret' = r

\* base::encode up to its loop: the early return for an empty input,
\* `digits.push(0)`.
EnterEncode(alphabet_, input) ==
    /\ s_alphabet' = alphabet_
    /\ s_input' = input
    /\ IF Len(input) = 0
       THEN Done(Return(Ok("", <<>>))) /\ UNCHANGED <<digits, n>>
       ELSE pc' = "enc_for" /\ digits' = <<0>> /\ n' = 1 /\ UNCHANGED ret
    /\ UNCHANGED <<bytes, j, carry>>

\* base::decode up to its loop: the early return for an empty input, the
\* leader of an empty alphabet, `vec![0]`.
EnterDecode(alphabet_, input) ==
    /\ s_alphabet' = alphabet_
    /\ s_input' = input
    /\ IF Len(input) = 0
       THEN Done(Return(Ok("", <<>>))) /\ UNCHANGED <<bytes, n>>
       ELSE IF Len(alphabet_) = 0
       THEN Done(Return(Err("DecodeError"))) /\ UNCHANGED <<bytes, n>>
       ELSE pc' = "dec_for" /\ bytes' = <<0>> /\ n' = 1 /\ UNCHANGED ret
    /\ UNCHANGED <<digits, j, carry>>

\* <[u8] as Encodable>::encode, to the converter's loop.
StartEncode ==
    /\ pc = "idle"
    /\ arg.fn = "encode"
    /\ IF alphabet(arg.base).kind # "Ok"
       THEN /\ Done(alphabet(arg.base))
            /\ UNCHANGED <<s_alphabet, s_input, digits, bytes, n, j, carry>>
       ELSE EnterEncode(alphabet(arg.base).val, arg.input)
    /\ UNCHANGED calls

\* <[u8] as Decodable>::decode, to the converter's loop.
StartDecode ==
    /\ pc = "idle"
    /\ arg.fn = "decode"
    /\ LET base == from_code(IF Len(arg.input) = 0 THEN 0 ELSE arg.input[1])
       IN IF base.kind # "Ok"
          THEN /\ Done(base)
               /\ UNCHANGED <<s_alphabet, s_input, digits, bytes, n, j, carry>>
          ELSE IF Len(arg.input) = 0
          THEN /\ Done(Panic)
               /\ UNCHANGED <<s_alphabet, s_input, digits, bytes, n, j, carry>>
          ELSE IF alphabet(base.base).kind # "Ok"
          THEN /\ Done(alphabet(base.base))
               /\ UNCHANGED <<s_alphabet, s_input, digits, bytes, n, j, carry>>
          ELSE EnterDecode(alphabet(base.base).val,
                           SubSeq(arg.input, 2, Len(arg.input)))
    /\ UNCHANGED calls

\* base::encode called directly.
StartBaseEncode ==
    /\ pc = "idle"
    /\ arg.fn = "base_encode"
    /\ EnterEncode(arg.alphabet, arg.input)
    /\ UNCHANGED calls

\* base::decode called directly.
StartBaseDecode ==
    /\ pc = "idle"
    /\ arg.fn = "base_decode"
    /\ EnterDecode(arg.alphabet, arg.input)
    /\ UNCHANGED calls

\* `for c in input` of encode: the next byte becomes the carry; after the
\* last one the leaders are appended and the digits mapped to symbols.
EncFor ==
    /\ pc = "enc_for"
    /\ IF n <= Len(s_input)
       THEN /\ j' = 1
            /\ carry' = s_input[n]
            /\ pc' = "enc_inner"
            /\ UNCHANGED <<digits, ret>>
       ELSE LET out == digits \o zeros(leaders(s_input, 0))
            IN /\ digits' = out
               /\ IF \E i \in 1..Len(out) : out[i] + 1 > Len(s_alphabet)
                  THEN Done(Panic)
                  ELSE Done(Return(Ok("", [i \in 1..Len(out) |->
                                              s_alphabet[reverse(out)[i] + 1]])))
               /\ UNCHANGED <<j, carry>>
    /\ UNCHANGED <<calls, s_alphabet, s_input, bytes, n>>

\* `while j < digits.len()` of encode.
EncInner ==
    /\ pc = "enc_inner"
    /\ IF j <= Len(digits)
       THEN IF Len(s_alphabet) = 0
            THEN Done(Panic) /\ UNCHANGED <<digits, j, carry>>
            ELSE LET c == encode_carry(carry, digits[j])
                 IN /\ digits' = [digits EXCEPT ![j] = c % u16(Len(s_alphabet))]
                    /\ carry' = c \div u16(Len(s_alphabet))
                    /\ j' = j + 1
                    /\ UNCHANGED <<pc, ret>>
       ELSE pc' = "enc_push" /\ UNCHANGED <<digits, j, carry, ret>>
    /\ UNCHANGED <<calls, s_alphabet, s_input, bytes, n>>

\* `while carry > 0` of encode.  A push the allocator refuses ends the call
\* without a value.
EncPush ==
    /\ pc = "enc_push"
    /\ IF carry > 0
       THEN IF Len(digits) >= MemCap
            THEN Done(Diverge) /\ UNCHANGED <<digits, carry, n>>
            ELSE /\ digits' = Append(digits, carry % u16(Len(s_alphabet)))
                 /\ carry' = carry \div u16(Len(s_alphabet))
                 /\ UNCHANGED <<pc, ret, n>>
       ELSE pc' = "enc_for" /\ n' = n + 1 /\ UNCHANGED <<digits, carry, ret>>
    /\ UNCHANGED <<calls, s_alphabet, s_input, bytes, j>>

\* `for c in input` of decode: the digit of the next symbol becomes the
\* carry, the 0xFF sentinel returns DecodeError; after the last symbol the
\* leaders are appended and the bytes reversed.
DecFor ==
    /\ pc = "dec_for"
    /\ IF n <= Len(s_input)
       THEN IF alphabet_map(s_alphabet, s_input[n]) = 255
            THEN Done(Return(Err("DecodeError"))) /\ UNCHANGED <<bytes, j, carry>>
            ELSE /\ j' = 1
                 /\ carry' = alphabet_map(s_alphabet, s_input[n])
                 /\ pc' = "dec_inner"
                 /\ UNCHANGED <<bytes, ret>>
       ELSE LET out == bytes \o zeros(leaders(s_input, s_alphabet[1]))
            IN /\ bytes' = reverse(out)
               /\ Done(Return(Ok("", reverse(out))))
               /\ UNCHANGED <<j, carry>>
    /\ UNCHANGED <<calls, s_alphabet, s_input, digits, n>>

\* `for byte in bytes.iter_mut()` of decode.
DecInner ==
    /\ pc = "dec_inner"
    /\ IF j <= Len(bytes)
       THEN LET c == decode_carry(carry, bytes[j], u16(Len(s_alphabet)))
            IN /\ bytes' = [bytes EXCEPT ![j] = u8(c)]
               /\ carry' = c \div 256
               /\ j' = j + 1
               /\ UNCHANGED pc
       ELSE pc' = "dec_push" /\ UNCHANGED <<bytes, j, carry>>
    /\ UNCHANGED <<calls, s_alphabet, s_input, digits, n, ret>>

\* `while carry > 0` of decode.
DecPush ==
    /\ pc = "dec_push"
    /\ IF carry > 0
       THEN /\ bytes' = Append(bytes, u8(carry))
            /\ carry' = carry \div 256
            /\ UNCHANGED <<pc, n>>
       ELSE pc' = "dec_for" /\ n' = n + 1 /\ UNCHANGED <<bytes, carry>>
    /\ UNCHANGED <<calls, s_alphabet, s_input, digits, j, ret>>

NextSteps ==
    \/ StartEncode
    \/ StartDecode
    \/ StartBaseEncode
    \/ StartBaseDecode
    \/ EncFor
    \/ EncInner
    \/ EncPush
    \/ DecFor
    \/ DecInner
    \/ DecPush

SpecSteps == InitSteps /\ [][NextSteps]_vars

\* What the whole-call operators make of the caller's arguments.
Whole ==
    CASE arg.fn = "encode" -> encode(arg.base, arg.input)
      [] arg.fn = "decode" -> decode(arg.input)
      [] arg.fn = "base_encode" -> base_encode(arg.alphabet, arg.input)
      [] arg.fn = "base_decode" -> base_decode(arg.alphabet, arg.input)

\* Stepping through a call returns what the whole-call operator returns.
StepsAgree == pc = "done" => ret = Whole

\* ------------------------------------------------------------------- claims

\* The symbols of an alphabet, and whether no symbol occurs twice in it.
Symbols(a) == {a[i] : i \in 1..Len(a)}
Distinct(a) == \A i, k \in 1..Len(a) : i # k => a[i] # a[k]

\* The integer a digit sequence denotes in the given radix, most significant
\* digit first, and least significant digit first.
RECURSIVE ValueOf(_, _)
ValueOf(ds, radix) ==
    IF Len(ds) = 0 THEN 0
    ELSE ValueOf(SubSeq(ds, 1, Len(ds) - 1), radix) * radix + ds[Len(ds)]
ValueLE(ds, radix) == ValueOf(reverse(ds), radix)

\* The numeral of v in the given radix, most significant digit first, without
\* a leading zero digit; a single zero digit for 0.
RECURSIVE Numeral(_, _)
Numeral(v, radix) ==
    IF v < radix THEN <<v>> ELSE Append(Numeral(v \div radix, radix), v % radix)

\* The length of the run of x at the front of s, counted among all elements
\* of s but the last.
FrontRun(s, x) ==
    CHOOSE k \in 0..(Len(s) - 1) :
        /\ \A i \in 1..k : s[i] = x
        /\ k = Len(s) - 1 \/ s[k + 1] # x

\* The six reserved padded variants and their code bytes t, T, c, C, M, U.
Padded ==
    { "Base32hexpad", "Base32hexpadUpper", "Base32pad", "Base32padUpper",
      "Base64pad", "Base64urlpad" }
PaddedCodes == {116, 84, 99, 67, 77, 85}

\* C1: for every base whose alphabet resolves and every byte buffer, the
\* public encode succeeds, and the public decode of what it returned gives
\* back exactly the base and the buffer.
C1_RoundTrip ==
    /\ (last.fn = "encode" /\ alphabet(last.base).kind = "Ok")
          => last.out.kind = "Ok"
    /\ (/\ last.fn = "decode"
        /\ prev.fn = "encode"
        /\ prev.out.kind = "Ok"
        /\ last.input = prev.out.val)
          => last.out = Ok(prev.base, prev.input)

\* C2: the converter encodes N >= 1 bytes 0x00 as exactly N leader symbols,
\* and decodes N >= 1 leader symbols as exactly N bytes 0x00.
C2_LeadingZeroSymmetry ==
    /\ (/\ last.fn = "base_encode"
        /\ Len(last.alphabet) >= 1
        /\ Len(last.input) >= 1
        /\ \A i \in 1..Len(last.input) : last.input[i] = 0)
          => last.out = Ok("", [i \in 1..Len(last.input) |-> last.alphabet[1]])
    /\ (/\ last.fn = "base_decode"
        /\ Len(last.alphabet) >= 1
        /\ Len(last.input) >= 1
        /\ \A i \in 1..Len(last.input) : last.input[i] = last.alphabet[1])
          => last.out = Ok("", zeros(Len(last.input)))

\* Three 0x00 bytes were encoded as three leaders, and these three leaders
\* were decoded as three 0x00 bytes.
C2_Witness ==
    /\ prev.fn = "base_encode"
    /\ prev.input = <<0, 0, 0>>
    /\ Len(prev.alphabet) = 58
    /\ last.fn = "base_decode"
    /\ last.input = <<prev.alphabet[1], prev.alphabet[1], prev.alphabet[1]>>
    /\ last.out = Ok("", <<0, 0, 0>>)

C4_InvalidSymbolRejected ==
    (/\ last.fn = "decode"
     /\ Len(last.input) >= 1
     /\ from_code_match(last.input[1]).kind = "Ok"
     /\ alphabet_match(from_code_match(last.input[1]).base).kind = "Ok"
     /\ \E i \in 2..Len(last.input) :
           last.input[i] \notin
              Symbols(alphabet_match(from_code_match(last.input[1]).base).val))
       => last.out = Err("InvalidBaseString")

\* A Base58btc text with b'_' between two symbols of the alphabet was
\* rejected.
C4_Witness ==
    /\ last.fn = "decode"
    /\ last.input = <<122, 122, Underscore, 49>>
    /\ last.out = Err("InvalidBaseString")

C6_UnknownBase ==
    (/\ arg.fn = "decode"
     /\ Len(arg.input) = 0 \/ arg.input[1] \notin {code(b) : b \in Base})
       => /\ pc \in {"idle", "done"}
          /\ pc = "done" => /\ ret = Err("UnkownBase")
                            /\ s_input = <<>>
                            /\ bytes = <<>>
                            /\ n = 0

\* The decode of the empty text has returned.
C6_Witness ==
    /\ arg.fn = "decode"
    /\ arg.input = <<>>
    /\ pc = "done"
    /\ ret = Err("UnkownBase")

\* C7: every public call ends with a result or one of the three errors, after
\* a number of loop steps bounded in the length of the input: no call is
\* cut short without a value, and the digit vector never outgrows eight
\* digits per input byte.
C7_EveryCallReturns ==
    arg.fn \in {"encode", "decode"}
       => /\ pc = "done"
               => \/ ret.kind = "Ok"
                  \/ /\ ret.kind = "Err"
                     /\ ret.err \in {"UnsupportedBase", "UnkownBase", "InvalidBaseString"}
          /\ Len(digits) <= 8 * Len(s_input) + 1
          /\ Len(bytes) <= Len(s_input) + 1

\* C8: every alphabet the registry resolves a base to has at least two
\* symbols, all different.
C8_AlphabetInvariant ==
    (last.fn = "encode" /\ alphabet(last.base).kind = "Ok")
       => /\ Len(alphabet(last.base).val) >= 2
          /\ Distinct(alphabet(last.base).val)

\* The digits the symbols of a text stand for.
DigitsOf(a, text) == [i \in 1..Len(text) |-> alphabet_map(a, text[i])]

\* C9: with an alphabet of 2 to 64 symbols no value of the 16-bit carry
\* exceeds 65535 before it is stored, every digit stays below B and every
\* carry below 256 once divided or shifted, and at the head of the outer loop
\* the digit (byte) vector denotes the integer of the input consumed so far.
C9_NoOverflow ==
    (Len(s_alphabet) >= 2 /\ Len(s_alphabet) <= 64)
       => /\ (pc = "enc_inner" /\ j <= Len(digits))
                => /\ digits[j] * 256 <= 65535
                   /\ carry + digits[j] * 256 <= 65535
          /\ pc \in {"enc_for", "enc_inner", "enc_push"}
                => /\ \A i \in 1..Len(digits) : digits[i] < Len(s_alphabet)
                   /\ carry < 256
          /\ pc = "enc_for"
                => ValueLE(digits, Len(s_alphabet))
                      = ValueOf(SubSeq(s_input, 1, n - 1), 256)
          /\ (pc = "dec_inner" /\ j <= Len(bytes))
                => /\ bytes[j] * Len(s_alphabet) <= 65535
                   /\ carry + bytes[j] * Len(s_alphabet) <= 65535
          /\ pc \in {"dec_for", "dec_inner", "dec_push"}
                => /\ \A i \in 1..Len(bytes) : bytes[i] < 256
                   /\ carry < 256
          /\ pc = "dec_for"
                => ValueLE(bytes, 256)
                      = ValueOf(DigitsOf(s_alphabet, SubSeq(s_input, 1, n - 1)),
                                Len(s_alphabet))

\* The largest carry a 64-symbol alphabet allows in encode is about to be
\* stored: digit 63 shifted by a byte, plus an incoming carry.
C9_Witness ==
    /\ pc = "enc_inner"
    /\ Len(s_alphabet) = 64
    /\ j <= Len(digits)
    /\ carry > 0
    /\ digits[j] = 63

\* C10: for an alphabet of B >= 2 distinct symbols, the converter's decode of
\* a non-empty text of symbols of the alphabet succeeds, and the converter's
\* encode of the bytes it returned gives back the text.
C10_TextsAreCanonical ==
    /\ (/\ last.fn = "base_decode"
        /\ Len(last.alphabet) >= 2
        /\ Distinct(last.alphabet)
        /\ Len(last.input) >= 1
        /\ \A i \in 1..Len(last.input) : last.input[i] \in Symbols(last.alphabet))
          => last.out.kind = "Ok"
    /\ (/\ last.fn = "base_encode"
        /\ prev.fn = "base_decode"
        /\ Len(prev.alphabet) >= 2
        /\ Distinct(prev.alphabet)
        /\ Len(prev.input) >= 1
        /\ last.alphabet = prev.alphabet
        /\ last.input = prev.out.val)
          => last.out = Ok("", prev.input)

\* ------------------------------------- the refuted statements, narrowed down

\* The round trip holds for every base but Base1.
RoundTripBeyondBase1 ==
    ((last.fn = "encode" => last.base # "Base1")
        /\ (prev.fn = "encode" => prev.base # "Base1"))
       => C1_RoundTrip

\* Every public call returns a value unless it encodes with Base1.
EveryCallReturnsBeyondBase1 ==
    ~(arg.fn = "encode" /\ arg.base = "Base1") => C7_EveryCallReturns

\* Base1 is the only resolved alphabet with fewer than two symbols.
AlphabetInvariantBeyondBase1 ==
    last.base # "Base1" => C8_AlphabetInvariant

\* Texts are canonical for alphabets of at most 255 symbols.
TextsAreCanonicalBelow256 ==
    (Len(last.alphabet) <= 255 /\ Len(prev.alphabet) <= 255)
       => C10_TextsAreCanonical

====
